---- MODULE Spec2Model ----
(***************************************************************************)
(* Glyph inventory builder (src/src/font-extractor.ts) and coverage        *)
(* checker (font-checker.ts, src/unnamed/part_002) of extract-text.        *)
(*                                                                         *)
(* A JavaScript string is modelled as what it is: a sequence of UTF-16     *)
(* code units (naturals below 65536).  A parsed font is the glyph list     *)
(* and the name table that opentype.parse hands to the code.               *)
(***************************************************************************)
EXTENDS Integers, Sequences, FiniteSets, TLC

VARIABLES font, pc, call, ret

vars == <<font, pc, call, ret>>

(***************************************************************************)
(* Bounds of the model.                                                    *)
(***************************************************************************)
MaxGlyphs == 2

MaxTextLen == 3

MaxTexts == 2

SampleWidth == 40

(***************************************************************************)
(* JavaScript strings.                                                     *)
(***************************************************************************)
IsHighSurrogate(u) == u >= \hD800 /\ u <= \hDBFF

IsLowSurrogate(u) == u >= \hDC00 /\ u <= \hDFFF

\* String.fromCharCode(n): ToUint16 of the argument, one code unit.
FromCharCode(n) == << n % 65536 >>

\* String.fromCodePoint(n) throws a RangeError above 0x10FFFF.
FromCodePointThrows(n) == n < 0 \/ n > \h10FFFF

\* String.fromCodePoint(n) for a code point it accepts (UTF-16 encoding).
FromCodePoint(n) ==
    IF n <= \hFFFF
    THEN << n >>
    ELSE << \hD800 + ((n - \h10000) \div 1024),
            \hDC00 + ((n - \h10000) % 1024) >>

\* Mutation of CodePointAt0: charCodeAt(0), the first UTF-16 unit alone.
CodePointAt0_FirstUnit(s) == s[1]

\* s.codePointAt(0) of a non-empty string.
CodePointAt0(s) ==
    IF IsHighSurrogate(s[1]) /\ Len(s) >= 2 /\ IsLowSurrogate(s[2])
    THEN (s[1] - \hD800) * 1024 + (s[2] - \hDC00) + \h10000
    ELSE s[1]

\* Mutation of ArrayFrom: text.split(''), one element per UTF-16 unit.
ArrayFrom_CodeUnits(s) == [k \in 1..Len(s) |-> << s[k] >>]

\* Array.from(s): the string iterator yields one element per code point,
\* a surrogate pair as one element, a lone surrogate as itself.
RECURSIVE ArrayFrom(_)
ArrayFrom(s) ==
    IF s = << >> THEN << >>
    ELSE IF IsHighSurrogate(s[1]) /\ Len(s) >= 2 /\ IsLowSurrogate(s[2])
         THEN << SubSeq(s, 1, 2) >> \o ArrayFrom(SubSeq(s, 3, Len(s)))
         ELSE << SubSeq(s, 1, 1) >> \o ArrayFrom(SubSeq(s, 2, Len(s)))

\* strs.join(''): concatenation of a list of strings.
RECURSIVE Join(_)
Join(strs) ==
    IF strs = << >> THEN << >> ELSE Head(strs) \o Join(Tail(strs))

\* ECMAScript WhiteSpace and LineTerminator code units (what trim() and \s strip).
IsWhiteSpace(u) ==
    \/ u \in {9, 10, 11, 12, 13, 32, \hA0, \h1680, \h2028, \h2029,
              \h202F, \h205F, \h3000, \hFEFF}
    \/ (u >= \h2000 /\ u <= \h200A)

\* s.trim()
RECURSIVE TrimStart(_)
TrimStart(s) ==
    IF s # << >> /\ IsWhiteSpace(s[1]) THEN TrimStart(Tail(s)) ELSE s

RECURSIVE TrimEnd(_)
TrimEnd(s) ==
    IF s # << >> /\ IsWhiteSpace(s[Len(s)])
    THEN TrimEnd(SubSeq(s, 1, Len(s) - 1)) ELSE s

Trim(s) == TrimEnd(TrimStart(s))

\* s.replace(/\s+/g, '')
StripWhiteSpace(s) == SelectSeq(s, LAMBDA u : ~IsWhiteSpace(u))

\* Number.prototype.toString() of a non-negative integer, as code units.
RECURSIVE DecimalString(_)
DecimalString(n) ==
    IF n < 10 THEN << 48 + n >>
    ELSE DecimalString(n \div 10) \o << 48 + (n % 10) >>

\* One lower-case hexadecimal digit as a code unit.
HexDigit(d) == IF d < 10 THEN 48 + d ELSE 87 + d

(***************************************************************************)
(* isPrintableChar (font-extractor.ts:20-103).                             *)
(***************************************************************************)
PrintableFallback(unicode) ==
    /\ unicode > \h1F
    /\ ~(unicode >= \hD800 /\ unicode <= \hDFFF)
    /\ (Trim(FromCharCode(unicode)) # << >> \/ unicode = \h20)

IsPrintableChar(char, unicode) ==
    \/ (unicode >= \h20 /\ unicode <= \h7E)
    \/ (unicode >= \hA0 /\ unicode <= \hFF)
    \/ (unicode >= \h4E00 /\ unicode <= \h9FFF)
    \/ (unicode >= \h3400 /\ unicode <= \h4DBF)
    \/ (unicode >= \h20000 /\ unicode <= \h2A6DF)
    \/ (unicode >= \h0100 /\ unicode <= \h017F)
    \/ (unicode >= \h0180 /\ unicode <= \h024F)
    \/ (unicode >= \h0370 /\ unicode <= \h03FF)
    \/ (unicode >= \h0400 /\ unicode <= \h04FF)
    \/ (unicode >= \h3040 /\ unicode <= \h309F)
    \/ (unicode >= \h30A0 /\ unicode <= \h30FF)
    \/ (unicode >= \hAC00 /\ unicode <= \hD7AF)
    \/ (unicode >= \h1F300 /\ unicode <= \h1F9FF)
    \/ PrintableFallback(unicode)

(***************************************************************************)
(* JSON.stringify(value, null, 2) of the two values the code serialises.    *)
(***************************************************************************)
\* The escape of one element of Array.from(str) inside a JSON string.
JsonEscape(c) ==
    IF Len(c) = 2 THEN c
    ELSE IF c[1] = 8 THEN << 92, 98 >>
    ELSE IF c[1] = 9 THEN << 92, 116 >>
    ELSE IF c[1] = 10 THEN << 92, 110 >>
    ELSE IF c[1] = 12 THEN << 92, 102 >>
    ELSE IF c[1] = 13 THEN << 92, 114 >>
    ELSE IF c[1] = 34 THEN << 92, 34 >>
    ELSE IF c[1] = 92 THEN << 92, 92 >>
    ELSE IF c[1] < 32 \/ IsHighSurrogate(c[1]) \/ IsLowSurrogate(c[1])
         THEN << 92, 117,
                 HexDigit(c[1] \div 4096), HexDigit((c[1] \div 256) % 16),
                 HexDigit((c[1] \div 16) % 16), HexDigit(c[1] % 16) >>
    ELSE c

\* JSON.stringify(str): the quoted, escaped string.
JsonString(str) ==
    LET cs == ArrayFrom(str)
    IN  << 34 >> \o Join([k \in 1..Len(cs) |-> JsonEscape(cs[k])]) \o << 34 >>

\* Elements joined with ",\n" between "[\n" and "\n]"; "[]" when empty.
RECURSIVE JoinLines(_)
JoinLines(items) ==
    IF Len(items) = 1 THEN items[1]
    ELSE items[1] \o << 44, 10 >> \o JoinLines(Tail(items))

JsonArray(items) ==
    IF items = << >> THEN << 91, 93 >>
    ELSE << 91, 10 >> \o JoinLines(items) \o << 10, 93 >>

\* JSON.stringify(glyphs.map(g => g.char), null, 2)
JsonCharArray(glyphs) ==
    JsonArray([k \in 1..Len(glyphs) |-> << 32, 32 >> \o JsonString(glyphs[k].char)])

\* One FontGlyph object at indentation 2, keys in insertion order.
JsonGlyph(g) ==
    << 32, 32, 123, 10 >>
    \o << 32, 32, 32, 32, 34, 117, 110, 105, 99, 111, 100, 101, 34, 58, 32 >>
    \o DecimalString(g.unicode)
    \o << 44, 10, 32, 32, 32, 32, 34, 99, 104, 97, 114, 34, 58, 32 >>
    \o JsonString(g.char)
    \o << 44, 10, 32, 32, 32, 32, 34, 110, 97, 109, 101, 34, 58, 32 >>
    \o JsonString(g.name)
    \o << 44, 10, 32, 32, 32, 32, 34, 104, 97, 115, 80, 97, 116, 104, 34, 58, 32 >>
    \o (IF g.hasPath THEN << 116, 114, 117, 101 >> ELSE << 102, 97, 108, 115, 101 >>)
    \o << 10, 32, 32, 125 >>

\* JSON.stringify(glyphs, null, 2)
JsonGlyphArray(glyphs) ==
    JsonArray([k \in 1..Len(glyphs) |-> JsonGlyph(glyphs[k])])

(***************************************************************************)
(* The parsed font: glyph i of the table is font.glyphs[i + 1].  A glyph   *)
(* has an optional unicode (<< >> when undefined, else << code point >>),   *)
(* a name (<< >> when it has none) and may or may not carry path data.     *)
(* A name-table field is absent, or an object of localized strings that    *)
(* may or may not have an "en" entry.                                      *)
(***************************************************************************)
GlyphUnicodeDefined(glyph) == glyph.unicode # << >>

\* glyph.name || `glyph_${i}`
GlyphName(glyph, i) ==
    IF glyph.name # << >> THEN glyph.name
    ELSE << 103, 108, 121, 112, 104, 95 >> \o DecimalString(i)

\* A JavaScript value that is a string, or an object that is not.
StringValue(s) == [isString |-> TRUE, str |-> s]

ObjectValue == [isString |-> FALSE, str |-> << >>]

\* `${v}`: a string as itself, a plain object as "[object Object]".
TemplateString(v) ==
    IF v.isString THEN v.str
    ELSE << 91, 111, 98, 106, 101, 99, 116, 32, 79, 98, 106, 101, 99, 116, 93 >>

\* field?.en is truthy
HasTruthyEn(field) == field.present /\ field.hasEn /\ field.en # << >>

\* field?.en || field
EnOrField(field) == IF HasTruthyEn(field) THEN StringValue(field.en) ELSE ObjectValue

\* font.names.fontFamily?.en || font.names.fontFamily || 'Unknown'
FamilyName(names) ==
    IF names.fontFamily.present THEN EnOrField(names.fontFamily)
    ELSE StringValue(<< 85, 110, 107, 110, 111, 119, 110 >>)

\* font.names.fontSubfamily?.en || font.names.fontSubfamily || 'Unknown'
SubfamilyName(names) ==
    IF names.fontSubfamily.present THEN EnOrField(names.fontSubfamily)
    ELSE StringValue(<< 85, 110, 107, 110, 111, 119, 110 >>)

\* font.names.fullName?.en || font.names.fullName || `${familyName} ${subfamilyName}`
FullName(names) ==
    IF names.fullName.present THEN EnOrField(names.fullName)
    ELSE StringValue(TemplateString(FamilyName(names)) \o << 32 >>
                     \o TemplateString(SubfamilyName(names)))

\* The last operand fullName.replace(/\s+/g, '') is reached, and fullName is
\* not a string: "fullName.replace is not a function" (TypeError).
PostScriptNameThrows(names) ==
    ~names.postScriptName.present /\ ~FullName(names).isString

\* font.names.postScriptName?.en || font.names.postScriptName
\*   || fullName.replace(/\s+/g, '')
PostScriptName(names) ==
    IF names.postScriptName.present THEN EnOrField(names.postScriptName)
    ELSE StringValue(StripWhiteSpace(FullName(names).str))

(***************************************************************************)
(* extractTextFromFont (font-extractor.ts:112-241).                        *)
(* An option is << >> when the caller leaves it out, else << value >>.     *)
(* A custom filter is given by the set of <<char, unicode>> pairs it        *)
(* returns true for.                                                       *)
(***************************************************************************)
\* const { printableOnly = true, ... } = options
OptionOr(option, default) == IF option = << >> THEN default ELSE option[1]

\* The try block of the scan: fromCharCode up to 0xFFFF, fromCodePoint above.
ConversionThrows(unicode) == unicode > \hFFFF /\ FromCodePointThrows(unicode)

ConvertToChar(unicode) ==
    IF unicode <= \hFFFF THEN FromCharCode(unicode) ELSE FromCodePoint(unicode)

\* filter(char, unicode)
FilterAccepts(filter, char, unicode) == << char, unicode >> \in filter[1]

\* Mutation of ShouldInclude: the control-character test is left out.
ShouldInclude_NoControlFilter(options, char, unicode) ==
    LET printableOnly == OptionOr(options.printableOnly, TRUE)
        afterPrintable == ~(printableOnly /\ ~IsPrintableChar(char, unicode))
    IN  IF afterPrintable /\ options.filter # << >>
           /\ ~FilterAccepts(options.filter, char, unicode)
        THEN FALSE ELSE afterPrintable

\* Mutation of ShouldInclude: a custom filter, when given, decides alone.
ShouldInclude_FilterOverrides(options, char, unicode) ==
    LET printableOnly == OptionOr(options.printableOnly, TRUE)
        includeControlChars == OptionOr(options.includeControlChars, FALSE)
        afterPrintable == ~(printableOnly /\ ~IsPrintableChar(char, unicode))
        afterControl ==
            IF ~includeControlChars /\ unicode >= 0 /\ unicode <= \h1F
            THEN FALSE ELSE afterPrintable
    IN  IF options.filter # << >>
        THEN FilterAccepts(options.filter, char, unicode)
        ELSE afterControl

\* The three filters of the scan, in the order the code applies them.
ShouldInclude(options, char, unicode) ==
    LET printableOnly == OptionOr(options.printableOnly, TRUE)
        includeControlChars == OptionOr(options.includeControlChars, FALSE)
        afterPrintable == ~(printableOnly /\ ~IsPrintableChar(char, unicode))
        afterControl ==
            IF ~includeControlChars /\ unicode >= 0 /\ unicode <= \h1F
            THEN FALSE ELSE afterPrintable
    IN  IF afterControl /\ options.filter # << >>
           /\ ~FilterAccepts(options.filter, char, unicode)
        THEN FALSE ELSE afterControl

\* The record pushed for glyph i.
GlyphRecord(glyph, i, char, unicode) ==
    [unicode |-> unicode, char |-> char,
     name |-> GlyphName(glyph, i), hasPath |-> glyph.path]

\* Mutation of ScanGlyphs: a later glyph of the same char replaces the record.
RECURSIVE ScanGlyphs_LastWins(_, _, _, _)
ScanGlyphs_LastWins(glyphTable, options, i, acc) ==
    IF i >= Len(glyphTable) THEN acc
    ELSE
      LET glyph == glyphTable[i + 1]
          unicode == glyph.unicode[1]
          char == ConvertToChar(unicode)
          record == GlyphRecord(glyph, i, char, unicode)
      IN  IF ~GlyphUnicodeDefined(glyph)
            THEN ScanGlyphs_LastWins(glyphTable, options, i + 1, acc)
          ELSE IF ConversionThrows(unicode)
            THEN ScanGlyphs_LastWins(glyphTable, options, i + 1, acc)
          ELSE IF ~ShouldInclude(options, char, unicode)
            THEN ScanGlyphs_LastWins(glyphTable, options, i + 1, acc)
          ELSE IF char \in acc.textSet
            THEN ScanGlyphs_LastWins(glyphTable, options, i + 1,
                   [glyphs |-> [k \in 1..Len(acc.glyphs) |->
                                  IF acc.glyphs[k].char = char THEN record
                                  ELSE acc.glyphs[k]],
                    textSet |-> acc.textSet])
          ELSE ScanGlyphs_LastWins(glyphTable, options, i + 1,
                 [glyphs |-> Append(acc.glyphs, record),
                  textSet |-> acc.textSet \cup {char}])

\* The for loop from index i on; acc holds glyphs and textSet.
RECURSIVE ScanGlyphs(_, _, _, _)
ScanGlyphs(glyphTable, options, i, acc) ==
    IF i >= Len(glyphTable) THEN acc
    ELSE
      LET glyph == glyphTable[i + 1]
          unicode == glyph.unicode[1]
          char == ConvertToChar(unicode)
      IN  IF ~GlyphUnicodeDefined(glyph)
            THEN ScanGlyphs(glyphTable, options, i + 1, acc)
          ELSE IF ConversionThrows(unicode)
            THEN ScanGlyphs(glyphTable, options, i + 1, acc)
          ELSE IF ~ShouldInclude(options, char, unicode)
            THEN ScanGlyphs(glyphTable, options, i + 1, acc)
          ELSE IF char \in acc.textSet
            THEN ScanGlyphs(glyphTable, options, i + 1, acc)
          ELSE ScanGlyphs(glyphTable, options, i + 1,
                 [glyphs |-> Append(acc.glyphs,
                                    GlyphRecord(glyph, i, char, unicode)),
                  textSet |-> acc.textSet \cup {char}])

\* Mutation of SortByUnicode: the sort is left out.
SortByUnicode_NoSort(glyphs) == glyphs

\* glyphs.sort((a, b) => a.unicode - b.unicode): Array.prototype.sort is
\* stable, equal keys keep their order.
RECURSIVE InsertByUnicode(_, _)
InsertByUnicode(sorted, g) ==
    IF sorted = << >> THEN << g >>
    ELSE IF sorted[Len(sorted)].unicode - g.unicode > 0
         THEN Append(InsertByUnicode(SubSeq(sorted, 1, Len(sorted) - 1), g),
                     sorted[Len(sorted)])
         ELSE Append(sorted, g)

RECURSIVE SortByUnicode(_)
SortByUnicode(glyphs) ==
    IF glyphs = << >> THEN << >>
    ELSE InsertByUnicode(SortByUnicode(SubSeq(glyphs, 1, Len(glyphs) - 1)),
                         glyphs[Len(glyphs)])

\* The switch on outputFormat.
FormatText(glyphs, outputFormat) ==
    IF outputFormat = "array" THEN JsonCharArray(glyphs)
    ELSE IF outputFormat = "json" THEN JsonGlyphArray(glyphs)
    ELSE Join([k \in 1..Len(glyphs) |-> glyphs[k].char])

Thrown == [status |-> "threw", error |-> "TypeError"]

ExtractTextFromFont(fnt, options) ==
    IF PostScriptNameThrows(fnt.names) THEN Thrown
    ELSE
      LET scanned == ScanGlyphs(fnt.glyphs, options, 0,
                                [glyphs |-> << >>, textSet |-> {}])
          glyphs == SortByUnicode(scanned.glyphs)
      IN  [status |-> "returned",
           familyName |-> FamilyName(fnt.names),
           subfamilyName |-> SubfamilyName(fnt.names),
           fullName |-> FullName(fnt.names),
           postScriptName |-> PostScriptName(fnt.names),
           glyphCount |-> Len(glyphs),
           glyphs |-> glyphs,
           extractedText |->
               FormatText(glyphs, OptionOr(options.outputFormat, "text"))]

(***************************************************************************)
(* extractTextFromFontSync (font-extractor.ts:249-346): the same steps,    *)
(* written out a second time in the source.                                *)
(***************************************************************************)
\* Mutation of ShouldIncludeSync: the copy defaults printableOnly to false.
ShouldIncludeSync_DefaultDrift(options, char, unicode) ==
    LET printableOnly == OptionOr(options.printableOnly, FALSE)
        includeControlChars == OptionOr(options.includeControlChars, FALSE)
        afterPrintable == ~(printableOnly /\ ~IsPrintableChar(char, unicode))
        afterControl ==
            IF ~includeControlChars /\ unicode >= 0 /\ unicode <= \h1F
            THEN FALSE ELSE afterPrintable
    IN  IF afterControl /\ options.filter # << >>
           /\ ~FilterAccepts(options.filter, char, unicode)
        THEN FALSE ELSE afterControl

ShouldIncludeSync(options, char, unicode) ==
    LET printableOnly == OptionOr(options.printableOnly, TRUE)
        includeControlChars == OptionOr(options.includeControlChars, FALSE)
        afterPrintable == ~(printableOnly /\ ~IsPrintableChar(char, unicode))
        afterControl ==
            IF ~includeControlChars /\ unicode >= 0 /\ unicode <= \h1F
            THEN FALSE ELSE afterPrintable
    IN  IF afterControl /\ options.filter # << >>
           /\ ~FilterAccepts(options.filter, char, unicode)
        THEN FALSE ELSE afterControl

RECURSIVE ScanGlyphsSync(_, _, _, _)
ScanGlyphsSync(glyphTable, options, i, acc) ==
    IF i >= Len(glyphTable) THEN acc
    ELSE
      LET glyph == glyphTable[i + 1]
          unicode == glyph.unicode[1]
          char == ConvertToChar(unicode)
      IN  IF ~GlyphUnicodeDefined(glyph)
            THEN ScanGlyphsSync(glyphTable, options, i + 1, acc)
          ELSE IF ConversionThrows(unicode)
            THEN ScanGlyphsSync(glyphTable, options, i + 1, acc)
          ELSE IF ~ShouldIncludeSync(options, char, unicode)
                  \/ char \in acc.textSet
            THEN ScanGlyphsSync(glyphTable, options, i + 1, acc)
          ELSE ScanGlyphsSync(glyphTable, options, i + 1,
                 [glyphs |-> Append(acc.glyphs,
                                    GlyphRecord(glyph, i, char, unicode)),
                  textSet |-> acc.textSet \cup {char}])

ExtractTextFromFontSync(fnt, options) ==
    IF PostScriptNameThrows(fnt.names) THEN Thrown
    ELSE
      LET scanned == ScanGlyphsSync(fnt.glyphs, options, 0,
                                    [glyphs |-> << >>, textSet |-> {}])
          glyphs == SortByUnicode(scanned.glyphs)
      IN  [status |-> "returned",
           familyName |-> FamilyName(fnt.names),
           subfamilyName |-> SubfamilyName(fnt.names),
           fullName |-> FullName(fnt.names),
           postScriptName |-> PostScriptName(fnt.names),
           glyphCount |-> Len(glyphs),
           glyphs |-> glyphs,
           extractedText |->
               FormatText(glyphs, OptionOr(options.outputFormat, "text"))]

(***************************************************************************)
(* font-checker.ts (src/unnamed/part_002): checkCharInFont and              *)
(* checkTextInFont.  An optional glyphName is << >> when undefined.         *)
(***************************************************************************)
\* Mutation of FindGlyph: the break is left out, the last match is kept.
RECURSIVE FindGlyph_NoBreak(_, _, _)
FindGlyph_NoBreak(glyphTable, unicode, i) ==
    IF i >= Len(glyphTable) THEN [exists |-> FALSE, glyphName |-> << >>]
    ELSE
      LET later == FindGlyph_NoBreak(glyphTable, unicode, i + 1)
      IN  IF later.exists THEN later
          ELSE IF glyphTable[i + 1].unicode = << unicode >>
               THEN [exists |-> TRUE,
                     glyphName |-> << GlyphName(glyphTable[i + 1], i) >>]
               ELSE later

\* The for loop of checkCharInFont from index i on: the first glyph whose
\* unicode is strictly equal to the code point, with break.
RECURSIVE FindGlyph(_, _, _)
FindGlyph(glyphTable, unicode, i) ==
    IF i >= Len(glyphTable) THEN [exists |-> FALSE, glyphName |-> << >>]
    ELSE IF glyphTable[i + 1].unicode = << unicode >>
         THEN [exists |-> TRUE,
               glyphName |-> << GlyphName(glyphTable[i + 1], i) >>]
         ELSE FindGlyph(glyphTable, unicode, i + 1)

\* checkCharInFont(fontPath, char) for a non-empty char.
CheckCharInFont(fnt, char) ==
    LET unicode == CodePointAt0(char)
        found == FindGlyph(fnt.glyphs, unicode, 0)
    IN  [char |-> char, unicode |-> unicode,
         exists |-> found.exists, glyphName |-> found.glyphName]

\* The Map filled by the first loop of checkTextInFont from index i on:
\* Map.set replaces the entry of a code point already present.
RECURSIVE BuildUnicodeToGlyph(_, _, _)
BuildUnicodeToGlyph(glyphTable, i, map) ==
    IF i >= Len(glyphTable) THEN map
    ELSE
      LET glyph == glyphTable[i + 1]
          entry == [name |-> GlyphName(glyph, i), index |-> i]
      IN  IF GlyphUnicodeDefined(glyph)
          THEN BuildUnicodeToGlyph(glyphTable, i + 1,
                 [u \in DOMAIN map \cup {glyph.unicode[1]} |->
                    IF u = glyph.unicode[1] THEN entry ELSE map[u]])
          ELSE BuildUnicodeToGlyph(glyphTable, i + 1, map)

EmptyMap == [u \in {} |-> 0]

\* Mutation of CheckEachChar: the test before missingChars.push is inverted.
RECURSIVE CheckEachChar_MissingInverted(_, _, _, _)
CheckEachChar_MissingInverted(chars, unicodeToGlyph, k, acc) ==
    IF k > Len(chars) THEN acc
    ELSE
      LET char == chars[k]
          unicode == CodePointAt0(char)
          exists == unicode \in DOMAIN unicodeToGlyph
          result == [char |-> char, unicode |-> unicode, exists |-> exists,
                     glyphName |-> IF exists
                                   THEN << unicodeToGlyph[unicode].name >>
                                   ELSE << >>]
      IN  CheckEachChar_MissingInverted(chars, unicodeToGlyph, k + 1,
            [charResults |-> Append(acc.charResults, result),
             missingChars |-> IF exists
                              THEN Append(acc.missingChars, char)
                              ELSE acc.missingChars])

\* The second loop of checkTextInFont over chars from position k on.
RECURSIVE CheckEachChar(_, _, _, _)
CheckEachChar(chars, unicodeToGlyph, k, acc) ==
    IF k > Len(chars) THEN acc
    ELSE
      LET char == chars[k]
          unicode == CodePointAt0(char)
          exists == unicode \in DOMAIN unicodeToGlyph
          result == [char |-> char, unicode |-> unicode, exists |-> exists,
                     glyphName |-> IF exists
                                   THEN << unicodeToGlyph[unicode].name >>
                                   ELSE << >>]
      IN  CheckEachChar(chars, unicodeToGlyph, k + 1,
            [charResults |-> Append(acc.charResults, result),
             missingChars |-> IF ~exists
                              THEN Append(acc.missingChars, char)
                              ELSE acc.missingChars])

CheckTextInFont(fnt, text) ==
    LET chars == ArrayFrom(text)
        unicodeToGlyph == BuildUnicodeToGlyph(fnt.glyphs, 0, EmptyMap)
        looped == CheckEachChar(chars, unicodeToGlyph, 1,
                                [charResults |-> << >>, missingChars |-> << >>])
    IN  [status |-> "returned",
         text |-> text,
         chars |-> looped.charResults,
         allExists |-> Len(looped.missingChars) = 0,
         missingChars |-> looped.missingChars]

\* checkMultipleTextsInFont: texts.map(text => checkTextInFont(fontPath, text))
CheckMultipleTextsInFont(fnt, texts) ==
    [k \in 1..Len(texts) |-> CheckTextInFont(fnt, texts[k])]

(***************************************************************************)
(* The inputs the model draws from.                                        *)
(***************************************************************************)
\* Code points of glyphs: a control character (tab), 'A', a high and a low
\* surrogate, a code point above the BMP (U+1F600), and a value above
\* 0x10FFFF that no string conversion accepts.
ValidCodePoints == {9, \h41, \hD83D, \hDE00, \h1F600}

InvalidCodePoints == {\h110000}

Glyphs ==
    {[unicode |-> << >>, name |-> << >>, path |-> FALSE]}
    \cup {[unicode |-> << u >>, name |-> << >>, path |-> FALSE] :
            u \in InvalidCodePoints}
    \cup {[unicode |-> << u >>, name |-> v.name, path |-> v.path] :
            u \in ValidCodePoints,
            v \in {[name |-> << >>, path |-> TRUE],
                   [name |-> << 97 >>, path |-> FALSE]}}

SeqsUpTo(S, n) == UNION {[1..k -> S] : k \in 0..n}

\* A name-table field: absent, or an object with or without an "en" entry.
AbsentField == [present |-> FALSE, hasEn |-> FALSE, en |-> << >>]

EnField(s) == [present |-> TRUE, hasEn |-> TRUE, en |-> s]

NoEnField == [present |-> TRUE, hasEn |-> FALSE, en |-> << >>]

NameFields == {AbsentField, NoEnField, EnField(<< >>), EnField(<< 65, 32, 66 >>)}

NameTables ==
    [fontFamily : NameFields, fontSubfamily : NameFields,
     fullName : NameFields, postScriptName : NameFields]

EnglishNames ==
    [fontFamily |-> EnField(<< 65 >>), fontSubfamily |-> EnField(<< 66 >>),
     fullName |-> EnField(<< 65, 32, 66 >>), postScriptName |-> AbsentField]

\* The glyph table of the fonts whose name table varies: a glyph whose code
\* point cannot be converted, followed by 'A'.
NamedGlyphTable ==
    << [unicode |-> << \h110000 >>, name |-> << >>, path |-> FALSE],
       [unicode |-> << \h41 >>, name |-> << 97 >>, path |-> TRUE] >>

Fonts ==
    [glyphs : SeqsUpTo(Glyphs, MaxGlyphs), names : {EnglishNames}]
    \cup [glyphs : {NamedGlyphTable}, names : NameTables]

\* The <<char, unicode>> pairs of the font's glyphs a filter can be asked about.
FilterDomain(fnt) ==
    {<< ConvertToChar(fnt.glyphs[k].unicode[1]), fnt.glyphs[k].unicode[1] >> :
        k \in {j \in 1..Len(fnt.glyphs) :
                 /\ GlyphUnicodeDefined(fnt.glyphs[j])
                 /\ ~ConversionThrows(fnt.glyphs[j].unicode[1])}}

OptionSets(fnt) ==
    [printableOnly : {<< >>, << TRUE >>, << FALSE >>},
     includeControlChars : {<< >>, << TRUE >>, << FALSE >>},
     filter : {<< >>} \cup {<< f >> : f \in SUBSET FilterDomain(fnt)},
     outputFormat : {<< >>, << "text" >>, << "json" >>, << "array" >>}]

(***************************************************************************)
(* The state machine: a parsed font, and one call on it.                   *)
(***************************************************************************)
Init ==
    /\ font \in Fonts
    /\ pc = "idle"
    /\ call = [op |-> "none"]
    /\ ret = [status |-> "none"]

CallExtractTextFromFont ==
    /\ pc = "idle"
    /\ \E options \in OptionSets(font) :
         /\ call' = [op |-> "extractTextFromFont", options |-> options]
         /\ ret' = ExtractTextFromFont(font, options)
    /\ pc' = "done"
    /\ UNCHANGED font

CallExtractTextFromFontSync ==
    /\ pc = "idle"
    /\ \E options \in OptionSets(font) :
         /\ call' = [op |-> "extractTextFromFontSync", options |-> options]
         /\ ret' = ExtractTextFromFontSync(font, options)
    /\ pc' = "done"
    /\ UNCHANGED font

Next == CallExtractTextFromFont \/ CallExtractTextFromFontSync

Spec == Init /\ [][Next]_vars

(***************************************************************************)
(* The coverage checker: a parsed font, and one check on it.               *)
(***************************************************************************)
\* Code units of query strings: 'A', 'X' (in no font of the model), and the
\* two halves of U+1F600, alone or as a pair.
TextUnits == {\h41, \h58, \hD83D, \hDE00}

Texts == SeqsUpTo(TextUnits, MaxTextLen)

CheckedFonts == [glyphs : SeqsUpTo(Glyphs, MaxGlyphs), names : {EnglishNames}]

InitCheck ==
    /\ font \in CheckedFonts
    /\ pc = "idle"
    /\ call = [op |-> "none"]
    /\ ret = [status |-> "none"]

CallCheckCharInFont ==
    /\ pc = "idle"
    /\ \E char \in Texts \ {<< >>} :
         /\ call' = [op |-> "checkCharInFont", char |-> char]
         /\ ret' = [status |-> "returned", result |-> CheckCharInFont(font, char)]
    /\ pc' = "done"
    /\ UNCHANGED font

CallCheckTextInFont ==
    /\ pc = "idle"
    /\ \E text \in Texts :
         /\ call' = [op |-> "checkTextInFont", text |-> text]
         /\ ret' = CheckTextInFont(font, text)
    /\ pc' = "done"
    /\ UNCHANGED font

CallCheckMultipleTextsInFont ==
    /\ pc = "idle"
    /\ \E texts \in SeqsUpTo(SeqsUpTo(TextUnits, 1), MaxTexts) :
         /\ call' = [op |-> "checkMultipleTextsInFont", texts |-> texts]
         /\ ret' = [status |-> "returned",
                    results |-> CheckMultipleTextsInFont(font, texts)]
    /\ pc' = "done"
    /\ UNCHANGED font

NextCheck ==
    CallCheckCharInFont \/ CallCheckTextInFont \/ CallCheckMultipleTextsInFont

SpecCheck == InitCheck /\ [][NextCheck]_vars

(***************************************************************************)
(* Properties of the inventory builder, checked under Spec.                *)
(***************************************************************************)
ExtractReturned ==
    /\ pc = "done"
    /\ call.op = "extractTextFromFont"
    /\ ret.status = "returned"

\* checkCharInFont reports every element of Array.from(text) as present.
AllCharsExist(fnt, text) ==
    LET cs == ArrayFrom(text)
    IN  \A k \in 1..Len(cs) : CheckCharInFont(fnt, cs[k]).exists

\* A lone high surrogate record directly followed by a lone low surrogate
\* record: concatenated, the two chars read as one code point above the BMP.
SurrogatesJoin(glyphs) ==
    \E k \in 1..(Len(glyphs) - 1) :
        IsHighSurrogate(glyphs[k].unicode) /\ IsLowSurrogate(glyphs[k + 1].unicode)

\* C1 as stated: for every font and every option set, outputFormat included,
\* every character of extractedText is reported present by checkCharInFont
\* on the same font.
C1_CoverageEveryFormat ==
    ExtractReturned => AllCharsExist(font, ret.extractedText)

\* C1 amended: when outputFormat is 'text' (or left out) and the sorted
\* inventory has no lone high surrogate directly followed by a lone low
\* surrogate, every character of extractedText is reported present by
\* checkCharInFont on the same font.
C1_CoverageOfText ==
    (/\ ExtractReturned
     /\ OptionOr(call.options.outputFormat, "text") = "text"
     /\ ~SurrogatesJoin(ret.glyphs))
    => AllCharsExist(font, ret.extractedText)

\* A text inventory holding 'A' and U+1F600, whose text is three code units.
C1_Witness ==
    /\ ExtractReturned
    /\ OptionOr(call.options.outputFormat, "text") = "text"
    /\ ~SurrogatesJoin(ret.glyphs)
    /\ ret.extractedText = << \h41, \hD83D, \hDE00 >>

\* C2: with includeControlChars false (or left out) no record of the
\* inventory has a code point in [0x00, 0x1F], whatever printableOnly and
\* the custom filter are.
C2_NoControlChars ==
    (ExtractReturned /\ ~OptionOr(call.options.includeControlChars, FALSE))
    => \A k \in 1..Len(ret.glyphs) :
          ~(ret.glyphs[k].unicode >= 0 /\ ret.glyphs[k].unicode <= \h1F)

\* The font has a tab glyph, printableOnly is false, the filter returns true
\* for every character, and includeControlChars is false.
C2_Witness ==
    /\ ExtractReturned
    /\ ~OptionOr(call.options.includeControlChars, FALSE)
    /\ call.options.printableOnly = << FALSE >>
    /\ call.options.filter = << FilterDomain(font) >>
    /\ \E j \in 1..Len(font.glyphs) : font.glyphs[j].unicode = << 9 >>
    /\ Len(font.glyphs) = 2
    /\ Len(ret.glyphs) = 1

\* a is b with some elements left out.
RECURSIVE IsSubsequence(_, _)
IsSubsequence(a, b) ==
    IF a = << >> THEN TRUE
    ELSE IF b = << >> THEN FALSE
    ELSE IF Head(a) = Head(b) THEN IsSubsequence(Tail(a), Tail(b))
    ELSE IsSubsequence(a, Tail(b))

WithoutFilter(options) == [options EXCEPT !.filter = << >>]

\* C3: the glyph list produced with a custom filter is a subsequence of the
\* list produced by the same options without it, each surviving record
\* identical in unicode, char, name and hasPath.
C3_FilterOnlyRestricts ==
    (ExtractReturned /\ call.options.filter # << >>)
    => IsSubsequence(ret.glyphs,
                     ExtractTextFromFont(font, WithoutFilter(call.options)).glyphs)

\* A filter that returns true for a glyph the built-in filters reject, on a
\* font with another glyph that survives all three filters.
C3_Witness ==
    /\ ExtractReturned
    /\ call.options.filter # << >>
    /\ Len(ret.glyphs) = 1
    /\ \E j \in 1..Len(font.glyphs) :
          /\ GlyphUnicodeDefined(font.glyphs[j])
          /\ ~ConversionThrows(font.glyphs[j].unicode[1])
          /\ << ConvertToChar(font.glyphs[j].unicode[1]),
                font.glyphs[j].unicode[1] >> \in call.options.filter[1]
          /\ \A k \in 1..Len(ret.glyphs) :
                ret.glyphs[k].unicode # font.glyphs[j].unicode[1]

\* The lowest 0-based index of a glyph mapped to the code point.
LowestIndex(glyphTable, unicode) ==
    CHOOSE i \in 0..(Len(glyphTable) - 1) :
        /\ glyphTable[i + 1].unicode = << unicode >>
        /\ \A j \in 0..(i - 1) : glyphTable[j + 1].unicode # << unicode >>

\* C4: no two records of an inventory share a char, and each record carries
\* the name and hasPath of the lowest-index glyph mapped to its code point.
C4_Dedup ==
    ExtractReturned
    => /\ \A k, l \in 1..Len(ret.glyphs) :
            ret.glyphs[k].char = ret.glyphs[l].char => k = l
       /\ \A k \in 1..Len(ret.glyphs) :
            LET i == LowestIndex(font.glyphs, ret.glyphs[k].unicode)
            IN  /\ ret.glyphs[k].name = GlyphName(font.glyphs[i + 1], i)
                /\ ret.glyphs[k].hasPath = font.glyphs[i + 1].path

\* Two glyphs of one code point, different in name and path, and an
\* inventory that holds that code point.
C4_Witness ==
    /\ ExtractReturned
    /\ Len(font.glyphs) = 2
    /\ font.glyphs[1].unicode = font.glyphs[2].unicode
    /\ font.glyphs[1].name # font.glyphs[2].name
    /\ font.glyphs[1].path # font.glyphs[2].path
    /\ Len(ret.glyphs) = 1

\* C5: in the returned glyph list unicode[i] <= unicode[i+1] for every
\* adjacent pair.
C5_Sorted ==
    ExtractReturned
    => \A k \in 1..(Len(ret.glyphs) - 1) :
          ret.glyphs[k].unicode <= ret.glyphs[k + 1].unicode

\* A glyph table in descending code point order, both glyphs in the inventory.
C5_Witness ==
    /\ ExtractReturned
    /\ Len(font.glyphs) = 2
    /\ GlyphUnicodeDefined(font.glyphs[1])
    /\ GlyphUnicodeDefined(font.glyphs[2])
    /\ font.glyphs[1].unicode[1] > font.glyphs[2].unicode[1]
    /\ Len(ret.glyphs) = 2

(***************************************************************************)
(* Properties of the coverage checker, checked under SpecCheck.            *)
(***************************************************************************)
TextChecked == pc = "done" /\ call.op = "checkTextInFont"

\* C6: the result of checkTextInFont satisfies allExists ==
\* (missingChars.length == 0) == (every entry of chars has exists == true),
\* and for the empty string chars = [], missingChars = [], allExists = true.
C6_AllExistsAgrees ==
    TextChecked
    => /\ ret.allExists <=> (Len(ret.missingChars) = 0)
       /\ ret.allExists <=> (\A k \in 1..Len(ret.chars) : ret.chars[k].exists)
       /\ call.text = << >>
            => (ret.chars = << >> /\ ret.missingChars = << >> /\ ret.allExists)

\* A text of which one character has a glyph and another has none.
C6_Witness ==
    /\ TextChecked
    /\ ~ret.allExists
    /\ \E k \in 1..Len(ret.chars) : ret.chars[k].exists
    /\ \E k \in 1..Len(ret.chars) : ~ret.chars[k].exists

\* A string that holds exactly one code point: one unit, or a surrogate pair.
IsOneCodePoint(c) ==
    \/ Len(c) = 1
    \/ (Len(c) = 2 /\ IsHighSurrogate(c[1]) /\ IsLowSurrogate(c[2]))

\* The scalar value of a one-code-point string.
ScalarValue(c) ==
    IF Len(c) = 2
    THEN \h10000 + (c[1] - \hD800) * 1024 + (c[2] - \hDC00)
    ELSE c[1]

\* C7: chars has exactly one entry per code point of the text, in order and
\* without deduplication (the entries' chars concatenate to the text, each
\* is one code point with that code point as unicode, and no two adjacent
\* entries are the halves of one pair); missingChars is the subsequence of
\* the chars whose entry has exists == false.
C7_OneEntryPerCodePoint ==
    TextChecked
    => /\ Join([k \in 1..Len(ret.chars) |-> ret.chars[k].char]) = call.text
       /\ \A k \in 1..Len(ret.chars) :
            /\ IsOneCodePoint(ret.chars[k].char)
            /\ ret.chars[k].unicode = ScalarValue(ret.chars[k].char)
       /\ \A k \in 1..(Len(ret.chars) - 1) :
            ~(/\ Len(ret.chars[k].char) = 1
              /\ IsHighSurrogate(ret.chars[k].char[1])
              /\ IsLowSurrogate(ret.chars[k + 1].char[1]))
       /\ LET missing == SelectSeq(ret.chars, LAMBDA r : ~r.exists)
          IN  ret.missingChars = [k \in 1..Len(missing) |-> missing[k].char]

\* A text with a surrogate pair (fewer entries than code units) and a
\* character without a glyph.
C7_Witness ==
    /\ TextChecked
    /\ Len(ret.chars) = 2
    /\ Len(call.text) = 3
    /\ Len(ret.missingChars) = 1

(***************************************************************************)
(* Properties of the inventory builder, continued (Spec).                  *)
(***************************************************************************)
\* C8 as stated: for every parsed font extractTextFromFont returns an
\* inventory without throwing, and a glyph it skips does not keep a later
\* glyph that passes the filters out of the inventory.
C8_NeverThrows ==
    (pc = "done" /\ call.op = "extractTextFromFont")
    => /\ ret.status = "returned"
       /\ \A j \in 1..Len(font.glyphs) :
            (/\ GlyphUnicodeDefined(font.glyphs[j])
             /\ ~ConversionThrows(font.glyphs[j].unicode[1])
             /\ ShouldInclude(call.options,
                              ConvertToChar(font.glyphs[j].unicode[1]),
                              font.glyphs[j].unicode[1]))
            => \E k \in 1..Len(ret.glyphs) :
                  ret.glyphs[k].unicode = font.glyphs[j].unicode[1]

\* C9: extractTextFromFontSync ends as extractTextFromFont does on the same
\* font and options: the same metadata, glyph list, glyphCount and
\* extractedText, or the same exception.
C9_SyncSameAsAsync ==
    (pc = "done" /\ call.op = "extractTextFromFontSync")
    => ret = ExtractTextFromFont(font, call.options)

\* A synchronous call that returned two records in an order other than the
\* glyph table's, serialised as JSON, with a filter given.
C9_Witness ==
    /\ pc = "done"
    /\ call.op = "extractTextFromFontSync"
    /\ ret.status = "returned"
    /\ call.options.outputFormat = << "json" >>
    /\ call.options.filter # << >>
    /\ Len(ret.glyphs) = 2
    /\ ret.glyphs[1].unicode = font.glyphs[2].unicode[1]

\* C10 as stated: with includeControlChars true and no custom filter, every
\* glyph whose code point is in [0x00, 0x1F] is in the inventory, for either
\* value of printableOnly and for its default.
C10_ControlCharsIncluded ==
    (/\ ExtractReturned
     /\ call.options.includeControlChars = << TRUE >>
     /\ call.options.filter = << >>)
    => \A j \in 1..Len(font.glyphs) :
          (/\ GlyphUnicodeDefined(font.glyphs[j])
           /\ font.glyphs[j].unicode[1] >= 0
           /\ font.glyphs[j].unicode[1] <= \h1F)
          => \E k \in 1..Len(ret.glyphs) :
                ret.glyphs[k].unicode = font.glyphs[j].unicode[1]

(***************************************************************************)
(* The classification policy on its own: isPrintableChar as the scan calls *)
(* it (font-extractor.ts:179), on the char converted from the code point.  *)
(***************************************************************************)
\* Where the sampled windows of code points start: the controls and ASCII,
\* DEL and Latin-1, the Unicode spaces, the end of Hangul, both ends of the
\* surrogate range, U+FEFF, the end of the BMP, and code points above it
\* inside and outside the listed blocks.
SampleBases ==
    {0, \h70, \h1670, \h2000, \h2FF0, \hD7A0, \hD7F0, \hDFE0, \hFEE0, \hFFE0,
     \h10000, \h12000, \h1D7F0, \h1F2F0, \h1F9F0, \h20000, \h2A6D0}

PrintableSamples == UNION {b..(b + SampleWidth) : b \in SampleBases}

InitPrintable ==
    /\ font = [glyphs |-> << >>, names |-> EnglishNames]
    /\ pc = "idle"
    /\ call = [op |-> "none"]
    /\ ret = [status |-> "none"]

CallIsPrintableChar ==
    /\ pc = "idle"
    /\ \E unicode \in PrintableSamples :
         LET char == ConvertToChar(unicode)
         IN  /\ call' = [op |-> "isPrintableChar",
                         char |-> char, unicode |-> unicode]
             /\ ret' = [status |-> "returned",
                        result |-> IsPrintableChar(char, unicode)]
    /\ pc' = "done"
    /\ UNCHANGED font

NextPrintable == CallIsPrintableChar

SpecPrintable == InitPrintable /\ [][NextPrintable]_vars

\* C11 as stated: isPrintableChar returns true for every code point above
\* 0x1F that is not a surrogate and whose character is not empty or
\* whitespace-only, code points above 0xFFFF outside the listed blocks
\* (such as 0x10020) included.
C11_FallbackPrintable ==
    (/\ pc = "done"
     /\ call.op = "isPrintableChar"
     /\ call.unicode > \h1F
     /\ ~(call.unicode >= \hD800 /\ call.unicode <= \hDFFF)
     /\ Trim(call.char) # << >>)
    => ret.result

(***************************************************************************)
(* Properties of the coverage checker, continued (SpecCheck).              *)
(***************************************************************************)
CharChecked == pc = "done" /\ call.op = "checkCharInFont"

\* The first code point of a non-empty string, decoded in full.
FirstScalarValue(s) ==
    IF Len(s) >= 2 /\ IsHighSurrogate(s[1]) /\ IsLowSurrogate(s[2])
    THEN ScalarValue(SubSeq(s, 1, 2))
    ELSE s[1]

\* C12: checkCharInFont reports the full code point of its argument, exists
\* exactly when some glyph has that unicode, and the glyphName of the
\* lowest-index matching glyph (its name, or glyph_<index> when the name is
\* empty); glyphName is absent when no glyph matches.
C12_CheckCharFirstMatch ==
    CharChecked
    => LET r == ret.result
       IN  /\ r.char = call.char
           /\ r.unicode = FirstScalarValue(call.char)
           /\ r.exists <=> (\E j \in 1..Len(font.glyphs) :
                               font.glyphs[j].unicode = << r.unicode >>)
           /\ r.exists =>
                LET i == LowestIndex(font.glyphs, r.unicode)
                    glyph == font.glyphs[i + 1]
                IN  r.glyphName =
                      << IF glyph.name # << >> THEN glyph.name
                         ELSE << 103, 108, 121, 112, 104, 95 >>
                              \o DecimalString(i) >>
           /\ ~r.exists => r.glyphName = << >>

\* The argument is the surrogate pair of U+1F600, and the font has two
\* glyphs of that code point, the first without a name, the second named.
C12_Witness ==
    /\ CharChecked
    /\ call.char = << \hD83D, \hDE00 >>
    /\ Len(font.glyphs) = 2
    /\ font.glyphs[1].unicode = << \h1F600 >>
    /\ font.glyphs[2].unicode = << \h1F600 >>
    /\ font.glyphs[1].name = << >>
    /\ font.glyphs[2].name # << >>
    /\ ret.result.glyphName = << << 103, 108, 121, 112, 104, 95, 48 >> >>

\* C13 as stated: every entry of checkTextInFont(font, text).chars equals
\* checkCharInFont(font, entry.char) in char, unicode, exists and glyphName,
\* also on fonts where several glyphs share one code point.
C13_CheckersAgree ==
    TextChecked
    => \A k \in 1..Len(ret.chars) :
          ret.chars[k] = CheckCharInFont(font, ret.chars[k].char)

====
